---------------------------- MODULE Spec2Model ----------------------------
(***************************************************************************)
(* A model of sConf (nthnn/sConf): the line parser, the serializer and the *)
(* section/key API of sConfParser, and the sConfValue variant.             *)
(*                                                                         *)
(* A std::string is a sequence of one-character strings, so that trim,     *)
(* trimQuotes, the comma split and the bracket tests are computed          *)
(* character by character as the code computes them.  The two              *)
(* unordered_maps `data` and `comments` are functions whose DOMAIN is the  *)
(* set of stored names.                                                    *)
(***************************************************************************)
EXTENDS Integers, Sequences, FiniteSets, TLC

---------------------------------------------------------------------------
(* Bounds of the model *)

\* length of the texts over '"' and 'a' the static helpers are called on
MaxTextLen == 5
\* magnitude of the integers given to sConfValue
MaxInt == 50

\* lines read by load() over one behaviour of ParseSpec
MaxLines == 3
\* calls of the public functions (load, save, the mutating API) over one
\* behaviour of Spec
MaxOps == 3

---------------------------------------------------------------------------
(* Characters *)

SP == " "
QT == "\""
LB == "["
RB == "]"
CM == ","
SC == ";"
EQ == "="

Min(S) == CHOOSE x \in S : \A y \in S : x <= y
Max(S) == CHOOSE x \in S : \A y \in S : x >= y

\* std::isspace, for the characters of the model
isspace(c) == c = SP

---------------------------------------------------------------------------
(* Grammar helpers (static members of sConfParser) *)

trim(str) ==
    LET keep == {i \in 1..Len(str) : ~isspace(str[i])}
    IN  IF keep = {} THEN <<>> ELSE SubSeq(str, Min(keep), Max(keep))

\* trimQuotes, were it to strip enclosing quote pairs until none is left
RECURSIVE trimQuotesAll(_)
trimQuotesAll(str) ==
    IF Len(str) >= 2 /\ str[1] = QT /\ str[Len(str)] = QT
    THEN trimQuotesAll(SubSeq(str, 2, Len(str) - 1))
    ELSE str

trimQuotes(str) ==
    IF Len(str) >= 2 /\ str[1] = QT /\ str[Len(str)] = QT
    THEN SubSeq(str, 2, Len(str) - 1)
    ELSE str

\* the normalisation most API calls apply to a section or key name
NormName(name) == trimQuotes(trim(name))

isArray(value) ==
    value # <<>> /\ value[1] = LB /\ value[Len(value)] = RB

\* the items the loop `while(std::getline(stream, item, ','))` yields:
\* an empty remainder yields no further item
RECURSIVE SplitComma(_)
SplitComma(s) ==
    IF s = <<>> THEN <<>>
    ELSE LET commas == {i \in 1..Len(s) : s[i] = CM}
         IN  IF commas = {} THEN <<s>>
             ELSE LET p == Min(commas)
                  IN  <<SubSeq(s, 1, p - 1)>> \o SplitComma(SubSeq(s, p + 1, Len(s)))

---------------------------------------------------------------------------
(* sConfValue: the three private fields *)

Digits == <<"0", "1", "2", "3", "4", "5", "6", "7", "8", "9">>

RECURSIVE NatToString(_)
NatToString(n) ==
    IF n < 10 THEN <<Digits[n + 1]>>
    ELSE NatToString(n \div 10) \o <<Digits[(n % 10) + 1]>>

\* std::to_string(int)
IntToString(i) == IF i < 0 THEN <<"-">> \o NatToString(0 - i) ELSE NatToString(i)

\* n in decimal, left-padded with zeros to at least w digits
RECURSIVE Pad(_, _)
Pad(n, w) ==
    IF w <= 1 THEN NatToString(n)
    ELSE IF Len(NatToString(n)) >= w THEN NatToString(n)
    ELSE <<"0">> \o Pad(n, w - 1)

\* std::to_string(double) is printf("%f"): six decimals, the seventh
\* rounded away.  A double is modelled by its count of ten-millionths (a
\* non-negative integer), so that it can carry one decimal more than the
\* text keeps.
DoubleToString(d) ==
    LET micro == (d + 5) \div 10
    IN  NatToString(micro \div 1000000) \o <<".">> \o Pad(micro % 1000000, 6)

\* strftime(buffer, "%Y-%m-%d %H:%M:%S", &tm) on a tm given as a record of
\* the calendar fields (year as the full year, mon as 1..12)
FormatDate(tm) ==
    NatToString(tm.year) \o <<"-">> \o Pad(tm.mon, 2) \o <<"-">> \o Pad(tm.mday, 2)
    \o <<SP>> \o Pad(tm.hour, 2) \o <<":">> \o Pad(tm.min, 2) \o <<":">> \o Pad(tm.sec, 2)

StringValue(val)  == [type |-> "String",  stringValue |-> val, values |-> <<>>]
IntegerValue(val) == [type |-> "Integer", stringValue |-> IntToString(val), values |-> <<>>]
DoubleValue(val)  == [type |-> "Double",  stringValue |-> DoubleToString(val), values |-> <<>>]
BooleanValue(val) ==
    [type |-> "Boolean",
     stringValue |-> IF val THEN <<"t", "r", "u", "e">> ELSE <<"f", "a", "l", "s", "e">>,
     values |-> <<>>]
ArrayValue(val)   == [type |-> "Array",   stringValue |-> <<>>, values |-> val]
DateValue(val)    == [type |-> "Date",    stringValue |-> FormatDate(val), values |-> <<>>]

ValueIsArray(v) == v.type = "Array"

\* isIntegral: the regex ^-?\d+$
isIntegral(str) ==
    LET ds == IF str # <<>> /\ str[1] = "-" THEN Tail(str) ELSE str
    IN  ds # <<>> /\ \A i \in 1..Len(ds) : \E n \in 0..9 : Digits[n + 1] = ds[i]

\* isNumber: the regex ^-?\d+(\.\d+)?$
isNumber(str) ==
    LET ds == IF str # <<>> /\ str[1] = "-" THEN Tail(str) ELSE str
        dots == {i \in 1..Len(ds) : ds[i] = "."}
    IN  IF dots = {} THEN isIntegral(ds) /\ ds[1] # "-"
        ELSE /\ Cardinality(dots) = 1
             /\ LET p == Min(dots)
                    whole == SubSeq(ds, 1, p - 1)
                    frac == SubSeq(ds, p + 1, Len(ds))
                IN  /\ isIntegral(whole) /\ whole[1] # "-"
                    /\ isIntegral(frac) /\ frac[1] # "-"

---------------------------------------------------------------------------
(* Parsing *)

\* the value built for one array item that is not itself an array
ArrayLeaf(trimmed) == StringValue(trimmed)

RECURSIVE parseArray(_)
parseArray(value) ==
    LET inner == SubSeq(value, 2, Len(value) - 1)
        items == SplitComma(inner)
        one(item) ==
            LET trimmed == trimQuotes(trim(item))
            IN  IF isArray(trimmed) THEN ArrayValue(parseArray(trimmed))
                ELSE ArrayLeaf(trimmed)
    IN  [i \in 1..Len(items) |-> one(items[i])]

\* ScalarOfText, were the parser to type a bare integer text as Integer
ScalarOfTextInferring(value) ==
    IF isIntegral(trimQuotes(value))
    THEN [type |-> "Integer", stringValue |-> trimQuotes(value), values |-> <<>>]
    ELSE StringValue(trimQuotes(value))

\* the value built for the text right of '=' that is not an array
ScalarOfText(value) == StringValue(trimQuotes(value))

EmptyMap == [x \in {} |-> x]

\* m[k] = v, were the assignment to drop the other entries of m
PutAlone(m, k, v) == [x \in {k} |-> v]

Put(m, k, v) == [x \in DOMAIN m \cup {k} |-> IF x = k THEN v ELSE m[x]]
Erase(m, k) == [x \in DOMAIN m \ {k} |-> m[x]]

NoErr == "none"
ErrMalformed == "Invalid key-value pair"
ErrSection == "Section not found"
ErrKeyInSection == "Key not found in section"
ErrKey == "Key not found"
ErrUnsupported == "Unsupported value type"
ErrNotInteger == "Value is not an integer"
ErrNotDouble == "Value is not a double"
ErrNotBoolean == "Value is not a boolean"
ErrNotString == "Value is not a string"
ErrNotDate == "Value is not a date"
ErrNotArray == "Value is not an array"
ErrDateFormat == "Invalid date format. Expected yyyy-MM-dd [hh:mm:ss]"

\* the buffer, were the last statement of parseLine to leave it as it is
clearKeeping(buf) == buf

\* commentBuffer.clear(), the last statement of parseLine: reached after a
\* header and after a key=value line
clear(buf) == <<>>

\* One call of parseLine on the members data, comments and the two
\* reference parameters; err is the exception thrown, if any.
parseLine(line, d, c, cur, buf) ==
    LET trimmed == trim(line)
        same == [err |-> NoErr, data |-> d, comments |-> c,
                 currentSection |-> cur, commentBuffer |-> buf]
    IN  IF trimmed = <<>> THEN same
        ELSE IF trimmed[1] = SC
        THEN [same EXCEPT !.commentBuffer =
                 Append(buf, trim(SubSeq(trimmed, 2, Len(trimmed))))]
        ELSE IF trimmed[1] = LB /\ trimmed[Len(trimmed)] = RB
        THEN LET sec == trimQuotes(trim(SubSeq(trimmed, 2, Len(trimmed) - 1)))
                 old == IF sec \in DOMAIN c THEN c[sec] ELSE <<>>
             IN  [err |-> NoErr, data |-> d,
                  comments |-> Put(c, sec, old \o buf),
                  currentSection |-> sec, commentBuffer |-> clear(buf)]
        ELSE LET eqs == {i \in 1..Len(trimmed) : trimmed[i] = EQ}
             IN  IF eqs = {} THEN [same EXCEPT !.err = ErrMalformed]
                 ELSE
                 LET eqPos == Min(eqs)
                     key == trimQuotes(trim(SubSeq(trimmed, 1, eqPos - 1)))
                     value0 == trim(SubSeq(trimmed, eqPos + 1, Len(trimmed)))
                     semis == {i \in 1..Len(value0) : value0[i] = SC}
                     value == IF semis = {} THEN value0
                              ELSE trimQuotes(trim(SubSeq(value0, 1, Min(semis) - 1)))
                     sValue == IF isArray(value) THEN ArrayValue(parseArray(value))
                               ELSE ScalarOfText(value)
                     keys == IF cur \in DOMAIN d THEN d[cur] ELSE EmptyMap
                 IN  [err |-> NoErr,
                      data |-> Put(d, cur, Put(keys, key, sValue)),
                      comments |-> c,
                      currentSection |-> cur, commentBuffer |-> clear(buf)]


\* load()'s loop over the lines of a file, into the members d and c; it
\* stops at the first line on which parseLine throws
RECURSIVE loadFrom(_, _, _, _, _)
loadFrom(lines, d, c, cur, buf) ==
    IF lines = <<>> THEN [err |-> NoErr, data |-> d, comments |-> c]
    ELSE LET r == parseLine(Head(lines), d, c, cur, buf)
         IN  IF r.err # NoErr THEN [err |-> r.err, data |-> r.data, comments |-> r.comments]
             ELSE loadFrom(Tail(lines), r.data, r.comments,
                           r.currentSection, r.commentBuffer)

\* load() on a freshly constructed sConfParser
load(lines) == loadFrom(lines, EmptyMap, EmptyMap, <<>>, <<>>)

---------------------------------------------------------------------------
(* Serializing *)

DigitOf(ch) == CHOOSE n \in 0..9 : Digits[n + 1] = ch
IsDigit(ch) == \E n \in 0..9 : Digits[n + 1] = ch

RECURSIVE StringToNat(_)
StringToNat(s) ==
    IF s = <<>> THEN 0
    ELSE 10 * StringToNat(SubSeq(s, 1, Len(s) - 1)) + DigitOf(s[Len(s)])

\* std::stoi on the text std::to_string(int) produced
StringToInt(s) ==
    IF s # <<>> /\ s[1] = "-" THEN 0 - StringToNat(Tail(s)) ELSE StringToNat(s)

\* std::stod on the text std::to_string(double) produced (six decimals), in
\* ten-millionths
StringToDouble(s) ==
    LET dot == Min({i \in 1..Len(s) : s[i] = "."})
    IN  10 * (StringToNat(SubSeq(s, 1, dot - 1)) * 1000000
                + StringToNat(SubSeq(s, dot + 1, Len(s))))

RECURSIVE StripZeros(_)
StripZeros(s) ==
    IF s # <<>> /\ s[Len(s)] = "0" THEN StripZeros(SubSeq(s, 1, Len(s) - 1)) ELSE s

\* operator<<(double) with the default precision (printf "%g"), for a value
\* of at most six significant digits: no trailing zeros, no bare point
StreamDouble(d) ==
    LET micro == d \div 10
        frac == StripZeros(Pad(micro % 1000000, 6))
    IN  NatToString(micro \div 1000000)
            \o (IF frac = <<>> THEN <<>> ELSE <<".">> \o frac)

\* saveValue: the characters written to the stream and the exception thrown,
\* if any (what was written before the throw stays in the stream)
RECURSIVE saveValue(_)
saveValue(value) ==
    CASE value.type = "Array" ->
            LET n == Len(value.values)
                parts == [i \in 1..n |-> saveValue(value.values[i])]
                bad == {i \in 1..n : parts[i].err # NoErr}
                upto == IF bad = {} THEN n ELSE Min(bad)
                sep(i) == IF i < n THEN <<CM, SP>> ELSE <<>>
                RECURSIVE join(_)
                join(i) ==
                    IF i > upto THEN <<>>
                    ELSE parts[i].text
                         \o (IF parts[i].err = NoErr THEN sep(i) ELSE <<>>)
                         \o join(i + 1)
            IN  IF bad = {} THEN [err |-> NoErr, text |-> <<LB>> \o join(1) \o <<RB>>]
                ELSE [err |-> parts[Min(bad)].err, text |-> <<LB>> \o join(1)]
      [] value.type = "String" -> [err |-> NoErr, text |-> value.stringValue]
      [] value.type = "Integer" ->
            [err |-> NoErr, text |-> IntToString(StringToInt(value.stringValue))]
      [] value.type = "Double" ->
            [err |-> NoErr, text |-> StreamDouble(StringToDouble(value.stringValue))]
      [] value.type = "Boolean" ->
            [err |-> NoErr,
             text |-> IF value.stringValue = <<"t", "r", "u", "e">>
                      THEN <<"t", "r", "u", "e">> ELSE <<"f", "a", "l", "s", "e">>]
      [] OTHER -> [err |-> ErrUnsupported, text |-> <<>>]

\* the lines save() writes for the keys of one section, visited in the
\* order korder
RECURSIVE saveKeys(_, _)
saveKeys(keys, korder) ==
    IF korder = <<>> THEN [err |-> NoErr, lines |-> <<>>]
    ELSE LET key == Head(korder)
             v == saveValue(keys[key])
             line == key \o <<SP, EQ, SP>> \o v.text
         IN  IF v.err # NoErr THEN [err |-> v.err, lines |-> <<line>>]
             ELSE LET rest == saveKeys(keys, Tail(korder))
                  IN  [err |-> rest.err, lines |-> <<line>> \o rest.lines]

\* save(): the sections of data visited in the order sorder, the keys of
\* section s in the order korders[s] (an unordered_map fixes neither)
RECURSIVE save(_, _, _, _)
save(d, c, sorder, korders) ==
    IF sorder = <<>> THEN [err |-> NoErr, lines |-> <<>>]
    ELSE LET section == Head(sorder)
             cl == IF section \in DOMAIN c
                   THEN [i \in 1..Len(c[section]) |-> <<SC, SP>> \o c[section][i]]
                   ELSE <<>>
             hd == <<LB>> \o section \o <<RB>>
             ks == saveKeys(d[section], korders[section])
             first == cl \o <<hd>> \o ks.lines
         IN  IF ks.err # NoErr THEN [err |-> ks.err, lines |-> first]
             ELSE LET rest == save(d, c, Tail(sorder), korders)
                  IN  [err |-> rest.err, lines |-> first \o rest.lines]

\* every order in which the elements of the finite set S can be visited
RECURSIVE Orders(_)
Orders(S) ==
    IF S = {} THEN {<<>>}
    ELSE UNION {{<<x>> \o o : o \in Orders(S \ {x})} : x \in S}

\* every choice of an iteration order for the keys of each section
KeyOrders(d) ==
    {f \in [DOMAIN d -> UNION {Orders(DOMAIN d[s]) : s \in DOMAIN d}] :
        \A s \in DOMAIN d : f[s] \in Orders(DOMAIN d[s])}

---------------------------------------------------------------------------
(* sConfValue: accessors and setters *)

\* the pieces of s between the characters '-', ' ' and ':'
RECURSIVE DateFields(_)
DateFields(s) ==
    LET seps == {i \in 1..Len(s) : s[i] \in {"-", SP, ":"}}
    IN  IF seps = {} THEN <<s>>
        ELSE <<SubSeq(s, 1, Min(seps) - 1)>>
                 \o DateFields(SubSeq(s, Min(seps) + 1, Len(s)))

\* parseDate: std::get_time into a zeroed tm, with "%Y-%m-%d %H:%M:%S" for a
\* text longer than 10 characters and "%Y-%m-%d" otherwise; tm_isdst is not
\* in the text and stays 0
parseDate(str) ==
    LET f == DateFields(str)
        want == IF Len(str) > 10 THEN 6 ELSE 3
        num(i) == IF i <= want THEN StringToNat(f[i]) ELSE 0
    IN  IF Len(f) # want
           \/ \E i \in 1..Len(f) : f[i] = <<>> \/ \E j \in 1..Len(f[i]) : ~IsDigit(f[i][j])
        THEN [err |-> ErrDateFormat, ret |-> <<>>]
        ELSE [err |-> NoErr,
              ret |-> [year |-> num(1), mon |-> num(2), mday |-> num(3),
                       hour |-> num(4), min |-> num(5), sec |-> num(6),
                       isdst |-> 0]]

getType(v) == v.type

getInteger(v) ==
    IF v.type # "Integer" THEN [err |-> ErrNotInteger, ret |-> <<>>]
    ELSE [err |-> NoErr, ret |-> StringToInt(v.stringValue)]

getDouble(v) ==
    IF v.type # "Double" THEN [err |-> ErrNotDouble, ret |-> <<>>]
    ELSE [err |-> NoErr, ret |-> StringToDouble(v.stringValue)]

getBoolean(v) ==
    IF v.type # "Boolean" THEN [err |-> ErrNotBoolean, ret |-> <<>>]
    ELSE [err |-> NoErr, ret |-> v.stringValue = <<"t", "r", "u", "e">>]

getString(v) ==
    IF v.type # "String" THEN [err |-> ErrNotString, ret |-> <<>>]
    ELSE [err |-> NoErr, ret |-> v.stringValue]

getDate(v) ==
    IF v.type # "Date" THEN [err |-> ErrNotDate, ret |-> <<>>]
    ELSE parseDate(v.stringValue)

getArray(v) ==
    IF v.type # "Array" THEN [err |-> ErrNotArray, ret |-> <<>>]
    ELSE [err |-> NoErr, ret |-> v.values]

\* the setters: each assigns the tag and the field that backs it and clears
\* the other field
setInteger(v, x) ==
    [v EXCEPT !.type = "Integer", !.stringValue = IntToString(x), !.values = <<>>]

setDouble(v, x) ==
    [v EXCEPT !.type = "Double", !.stringValue = DoubleToString(x), !.values = <<>>]

setBoolean(v, x) ==
    [v EXCEPT !.type = "Boolean",
              !.stringValue = IF x THEN <<"t", "r", "u", "e">>
                              ELSE <<"f", "a", "l", "s", "e">>,
              !.values = <<>>]

setString(v, x) ==
    [v EXCEPT !.type = "String", !.stringValue = x, !.values = <<>>]

setDate(v, x) ==
    [v EXCEPT !.type = "Date", !.stringValue = FormatDate(x), !.values = <<>>]

setArray(v, x) ==
    [v EXCEPT !.type = "Array", !.values = x, !.stringValue = <<>>]

---------------------------------------------------------------------------
(* The section/key API, on the members d (data) and c (comments) *)

getSections(d) == DOMAIN d

hasSection(d, section) == NormName(section) \in DOMAIN d

getSection(d, section) ==
    IF NormName(section) \in DOMAIN d
    THEN [err |-> NoErr, ret |-> d[NormName(section)]]
    ELSE [err |-> ErrSection, ret |-> EmptyMap]

getSectionKeyPair(d, section) ==
    IF NormName(section) \in DOMAIN d
    THEN [err |-> NoErr, ret |-> d[NormName(section)]]
    ELSE [err |-> ErrSection, ret |-> EmptyMap]

\* addSection, were it to assign the empty map whether or not the section exists
addSectionResetting(d, c, section) ==
    [err |-> NoErr, data |-> Put(d, trimQuotes(trim(section)), EmptyMap), comments |-> c]

addSection(d, c, section) ==
    LET sectionName == trimQuotes(trim(section))
    IN  IF sectionName \notin DOMAIN d
        THEN [err |-> NoErr, data |-> Put(d, sectionName, EmptyMap), comments |-> c]
        ELSE [err |-> NoErr, data |-> d, comments |-> c]

\* setKey, were it to assign through operator[] as parseLine does
setKeyCreating(d, c, section, key, value) ==
    LET sectionName == trimQuotes(trim(section))
        keyName == trimQuotes(trim(key))
        keys == IF sectionName \in DOMAIN d THEN d[sectionName] ELSE EmptyMap
    IN  [err |-> NoErr, data |-> Put(d, sectionName, Put(keys, keyName, value)),
         comments |-> c]

setKey(d, c, section, key, value) ==
    LET sectionName == trimQuotes(trim(section))
        keyName == trimQuotes(trim(key))
    IN  IF sectionName \notin DOMAIN d
        THEN [err |-> ErrSection, data |-> d, comments |-> c]
        ELSE [err |-> NoErr,
              data |-> Put(d, sectionName, Put(d[sectionName], keyName, value)),
              comments |-> c]

removeSection(d, c, section) ==
    LET sectionName == trimQuotes(section)
    IN  IF sectionName \notin DOMAIN d
        THEN [err |-> ErrSection, data |-> d, comments |-> c]
        ELSE [err |-> NoErr, data |-> Erase(d, sectionName),
              comments |-> Erase(c, sectionName)]

hasSectionPairByKey(d, section, key) ==
    /\ NormName(section) \in DOMAIN d
    /\ NormName(key) \in DOMAIN d[NormName(section)]

\* removeSectionPairByKey, were it to drop a section left without keys
removeSectionPairByKeyDropping(d, c, section, key) ==
    LET keyName == trimQuotes(trim(key))
        sectionName == trimQuotes(trim(section))
    IN  IF sectionName \notin DOMAIN d \/ keyName \notin DOMAIN d[sectionName]
        THEN [err |-> ErrKeyInSection, data |-> d, comments |-> c]
        ELSE IF DOMAIN d[sectionName] = {keyName}
        THEN [err |-> NoErr, data |-> Erase(d, sectionName), comments |-> c]
        ELSE [err |-> NoErr,
              data |-> Put(d, sectionName, Erase(d[sectionName], keyName)),
              comments |-> c]

removeSectionPairByKey(d, c, section, key) ==
    LET keyName == trimQuotes(trim(key))
        sectionName == trimQuotes(trim(section))
    IN  IF sectionName \notin DOMAIN d \/ keyName \notin DOMAIN d[sectionName]
        THEN [err |-> ErrKeyInSection, data |-> d, comments |-> c]
        ELSE [err |-> NoErr,
              data |-> Put(d, sectionName, Erase(d[sectionName], keyName)),
              comments |-> c]

isSectionPairArray(d, section, key) ==
    LET sectionName == trimQuotes(trim(section))
        keyName == trimQuotes(trim(key))
    IN  IF sectionName \notin DOMAIN d THEN [err |-> ErrSection, ret |-> FALSE]
        ELSE IF keyName \notin DOMAIN d[sectionName] THEN [err |-> ErrKey, ret |-> FALSE]
        ELSE [err |-> NoErr, ret |-> ValueIsArray(d[sectionName][keyName])]

isSectionPairSingleString(d, section, key) ==
    LET sectionName == trimQuotes(trim(section))
        keyName == trimQuotes(trim(key))
    IN  IF sectionName \notin DOMAIN d THEN [err |-> ErrSection, ret |-> FALSE]
        ELSE IF keyName \notin DOMAIN d[sectionName] THEN [err |-> ErrKey, ret |-> FALSE]
        ELSE [err |-> NoErr, ret |-> ~ValueIsArray(d[sectionName][keyName])]

getSectionComment(c, section) ==
    LET sectionName == trimQuotes(trim(section))
    IN  IF sectionName \in DOMAIN c THEN [err |-> NoErr, ret |-> c[sectionName]]
        ELSE [err |-> ErrSection, ret |-> <<>>]

hasSectionComment(c, section) ==
    /\ NormName(section) \in DOMAIN c
    /\ c[NormName(section)] # <<>>

\* removeSectionComment, were it to erase the entry
removeSectionCommentErasing(d, c, section) ==
    [err |-> NoErr, data |-> d, comments |-> Erase(c, NormName(section))]

removeSectionComment(d, c, section) ==
    IF NormName(section) \in DOMAIN c
    THEN [err |-> NoErr, data |-> d, comments |-> Put(c, NormName(section), <<>>)]
    ELSE [err |-> NoErr, data |-> d, comments |-> c]

---------------------------------------------------------------------------
(* Inputs *)

\* section names as a caller or a header line may write them:
\*   a   ' a'   "a"   " a"  (the last one quoted around a leading blank)
RawNames ==
    {<<"a">>, <<SP, "a">>, <<QT, "a", QT>>, <<QT, SP, "a", QT>>}

\* key names:   k   " k"
RawKeys == {<<"k">>, <<QT, SP, "k", QT>>}

\* value texts right of '=':
\*   1   " 1"   [1, [a]]   [,]   "1" ; c   "[1]"
RawValues ==
    {<<"1">>, <<QT, SP, "1", QT>>, <<LB, "1", CM, SP, LB, "a", RB, RB>>,
     <<LB, CM, RB>>, <<QT, "1", QT, SP, SC, SP, "c">>,
     <<QT, LB, "1", RB, QT>>}

HeaderLine(name) == <<LB>> \o name \o <<RB>>
KeyValueLine(key, value) == key \o <<SP, EQ, SP>> \o value

\* the lines a file may hold: headers, key=value lines (each value under the
\* key k, each key with the value 1), comment lines, a blank line and a line
\* that is none of these
InputLines ==
    {HeaderLine(n) : n \in RawNames}
    \cup {KeyValueLine(<<"k">>, v) : v \in RawValues}
    \cup {KeyValueLine(k, <<"1">>) : k \in RawKeys}
    \cup {<<SC, SP, "c">>, <<SC>>, <<SP>>, <<"a">>}

\* the files a caller loads as a whole:
\*   ; c / [a] / k = 1            a commented section with one key
\*   [" a"] / " k" = [1, [a]]     quoted names, a nested array
\*   ; c / [ a]                   a commented header with no key
\*   k = 1 / a                    a key before any header, then a malformed line
\*   [a] / " k" = 1 / ; d / [ a] / k = [,]
\*                                one section under two headers, the second
\*                                commented
InputFiles ==
    {<<<<SC, SP, "c">>, HeaderLine(<<"a">>), KeyValueLine(<<"k">>, <<"1">>)>>,
     <<HeaderLine(<<QT, SP, "a", QT>>),
       KeyValueLine(<<QT, SP, "k", QT>>, <<LB, "1", CM, SP, LB, "a", RB, RB>>)>>,
     <<<<SC, SP, "c">>, HeaderLine(<<SP, "a">>)>>,
     <<KeyValueLine(<<"k">>, <<"1">>), <<"a">>>>,
     <<HeaderLine(<<"a">>), KeyValueLine(<<QT, SP, "k", QT>>, <<"1">>),
       <<SC, SP, "d">>, HeaderLine(<<SP, "a">>),
       KeyValueLine(<<"k">>, <<LB, CM, RB>>)>>}

SomeDate ==
    [year |-> 2024, mon |-> 1, mday |-> 2, hour |-> 3, min |-> 4, sec |-> 5,
     isdst |-> 0]

\* the values a caller passes to setKey: one of each variant, the array
\* holding a string and a date
ApiValues ==
    {StringValue(<<"1">>), IntegerValue(1), DoubleValue(15000000), BooleanValue(TRUE),
     DateValue(SomeDate), ArrayValue(<<StringValue(<<"a">>), DateValue(SomeDate)>>)}

---------------------------------------------------------------------------
(* The state machine: one sConfParser instance and its caller *)

VARIABLES
    data,            \* sConfParser::data
    comments,        \* sConfParser::comments
    currentSection,  \* load()'s local, while a load runs
    commentBuffer,   \* load()'s local, while a load runs
    pc,              \* "idle", or "loading" inside load()'s loop
    last,            \* the last call that returned or threw: its arguments
                     \* and its exception
    file,            \* the lines the last save() wrote
    loadStart,       \* data and comments when the running or last load began
    read,            \* the lines the running or last load has been given
    nread,           \* lines read so far by ReadLine
    nops,            \* calls of public functions made so far
    arg,             \* the string a static helper is called on
    fn,              \* the static helper last called on arg, "none" before
    out,             \* what that call returned
    value,           \* one sConfValue object: type, stringValue, values
    native           \* the native value its constructor or last setter was given

\* the state of one sConfParser and of one load() in progress
parserVars == <<data, comments, currentSection, commentBuffer, pc, last, file,
                loadStart, read, nread, nops>>

\* a static helper under call, and one sConfValue on its own
unitVars == <<arg, fn, out, value, native>>

vars == <<data, comments, currentSection, commentBuffer, pc, last, file,
          loadStart, read, nread, nops, arg, fn, out, value, native>>

\* the record of a call that takes no section, key or value
Returned(op, err) ==
    [op |-> op, err |-> err, section |-> <<>>, key |-> <<>>, value |-> <<>>]

\* a freshly constructed sConfParser, no call made
NewParser ==
    /\ data = EmptyMap
    /\ comments = EmptyMap
    /\ currentSection = <<>>
    /\ commentBuffer = <<>>
    /\ pc = "idle"
    /\ last = Returned("new", NoErr)
    /\ file = <<>>
    /\ loadStart = [data |-> EmptyMap, comments |-> EmptyMap]
    /\ read = <<>>
    /\ nread = 0
    /\ nops = 0

\* no static helper called; the sConfValue default-constructed
NoUnit ==
    /\ arg = <<>>
    /\ fn = "none"
    /\ out = <<>>
    /\ value = [type |-> "String", stringValue |-> <<>>, values |-> <<>>]
    /\ native = [type |-> "String", val |-> <<>>]

Init == NewParser /\ NoUnit

\* load(): the file opened, the two locals default-constructed
LoadOpen ==
    /\ pc = "idle"
    /\ nread < MaxLines
    /\ pc' = "loading"
    /\ currentSection' = <<>>
    /\ commentBuffer' = <<>>
    /\ loadStart' = [data |-> data, comments |-> comments]
    /\ read' = <<>>
    /\ UNCHANGED <<data, comments, last, file, nread, nops>>
    /\ UNCHANGED unitVars

\* one turn of load()'s loop: getline yields a line and parseLine runs on
\* it; an exception leaves load()
ReadLine ==
    /\ pc = "loading"
    /\ nread < MaxLines
    /\ \E line \in InputLines :
         LET r == parseLine(line, data, comments, currentSection, commentBuffer)
         IN  /\ data' = r.data
             /\ comments' = r.comments
             /\ IF r.err = NoErr
                THEN /\ currentSection' = r.currentSection
                     /\ commentBuffer' = r.commentBuffer
                     /\ UNCHANGED <<pc, last>>
                ELSE /\ currentSection' = <<>>
                     /\ commentBuffer' = <<>>
                     /\ pc' = "idle"
                     /\ last' = Returned("load", r.err)
             /\ read' = Append(read, line)
    /\ nread' = nread + 1
    /\ UNCHANGED <<file, loadStart, nops>>
    /\ UNCHANGED unitVars

\* getline reaches the end of the file: load() returns
LoadEof ==
    /\ pc = "loading"
    /\ pc' = "idle"
    /\ currentSection' = <<>>
    /\ commentBuffer' = <<>>
    /\ last' = Returned("load", NoErr)
    /\ UNCHANGED <<data, comments, file, loadStart, read, nread, nops>>
    /\ UNCHANGED unitVars

\* load() as one call, on a file given whole: the loop of parseLine from the
\* default-constructed locals, left at the first exception
Load ==
    /\ pc = "idle"
    /\ nops < MaxOps
    /\ \E f \in InputFiles :
         LET r == loadFrom(f, data, comments, <<>>, <<>>)
         IN  /\ data' = r.data
             /\ comments' = r.comments
             /\ last' = Returned("load", r.err)
             /\ read' = f
    /\ loadStart' = [data |-> data, comments |-> comments]
    /\ nops' = nops + 1
    /\ UNCHANGED <<currentSection, commentBuffer, pc, file, nread>>
    /\ UNCHANGED unitVars

\* The caller's mutating calls: each applies the member function to the two
\* maps and records the exception, if any.
AddSection ==
    /\ pc = "idle"
    /\ nops < MaxOps
    /\ \E s \in RawNames :
         LET r == addSection(data, comments, s)
         IN  /\ data' = r.data
             /\ comments' = r.comments
             /\ last' = [op |-> "addSection", err |-> r.err,
                       section |-> s, key |-> <<>>, value |-> <<>>]
    /\ nops' = nops + 1
    /\ UNCHANGED <<currentSection, commentBuffer, pc, file, loadStart, read, nread>>
    /\ UNCHANGED unitVars

SetKey ==
    /\ pc = "idle"
    /\ nops < MaxOps
    /\ \E s \in RawNames, k \in RawKeys, v \in ApiValues :
         LET r == setKey(data, comments, s, k, v)
         IN  /\ data' = r.data
             /\ comments' = r.comments
             /\ last' = [op |-> "setKey", err |-> r.err,
                       section |-> s, key |-> k, value |-> v]
    /\ nops' = nops + 1
    /\ UNCHANGED <<currentSection, commentBuffer, pc, file, loadStart, read, nread>>
    /\ UNCHANGED unitVars

RemoveSection ==
    /\ pc = "idle"
    /\ nops < MaxOps
    /\ \E s \in RawNames :
         LET r == removeSection(data, comments, s)
         IN  /\ data' = r.data
             /\ comments' = r.comments
             /\ last' = [op |-> "removeSection", err |-> r.err,
                       section |-> s, key |-> <<>>, value |-> <<>>]
    /\ nops' = nops + 1
    /\ UNCHANGED <<currentSection, commentBuffer, pc, file, loadStart, read, nread>>
    /\ UNCHANGED unitVars

RemoveSectionPairByKey ==
    /\ pc = "idle"
    /\ nops < MaxOps
    /\ \E s \in RawNames, k \in RawKeys :
         LET r == removeSectionPairByKey(data, comments, s, k)
         IN  /\ data' = r.data
             /\ comments' = r.comments
             /\ last' = [op |-> "removeSectionPairByKey", err |-> r.err,
                       section |-> s, key |-> k, value |-> <<>>]
    /\ nops' = nops + 1
    /\ UNCHANGED <<currentSection, commentBuffer, pc, file, loadStart, read, nread>>
    /\ UNCHANGED unitVars

RemoveSectionComment ==
    /\ pc = "idle"
    /\ nops < MaxOps
    /\ \E s \in RawNames :
         LET r == removeSectionComment(data, comments, s)
         IN  /\ data' = r.data
             /\ comments' = r.comments
             /\ last' = [op |-> "removeSectionComment", err |-> r.err,
                       section |-> s, key |-> <<>>, value |-> <<>>]
    /\ nops' = nops + 1
    /\ UNCHANGED <<currentSection, commentBuffer, pc, file, loadStart, read, nread>>
    /\ UNCHANGED unitVars

\* save(): the two maps are iterated in some order
Save ==
    /\ pc = "idle"
    /\ nops < MaxOps
    /\ \E so \in Orders(DOMAIN data), ko \in KeyOrders(data) :
         LET r == save(data, comments, so, ko)
         IN  /\ file' = r.lines
             /\ last' = Returned("save", r.err)
    /\ nops' = nops + 1
    /\ UNCHANGED <<data, comments, currentSection, commentBuffer, pc, loadStart, read,
                   nread>>
    /\ UNCHANGED unitVars

\* load() line by line, on any lines
ParseNext == LoadOpen \/ ReadLine \/ LoadEof

ParseSpec == Init /\ [][ParseNext]_vars

\* the public functions, called in any order
Next ==
    \/ Load \/ Save
    \/ AddSection \/ SetKey \/ RemoveSection \/ RemoveSectionPairByKey
    \/ RemoveSectionComment

Spec == Init /\ [][Next]_vars

---------------------------------------------------------------------------
(* The static helpers, each called on a text of the caller *)

\* every text over '"' and 'a' of at most MaxTextLen characters
QuoteTexts == UNION {[1..n -> {QT, "a"}] : n \in 0..MaxTextLen}

\* array literals:
\*   [1, 2, [3, 4]]   [1, 2, 3]   [[3, 4]]   [1, [a]]   []   ["a", "a"]
ArrayLiterals ==
    {<<LB, "1", CM, SP, "2", CM, SP, LB, "3", CM, SP, "4", RB, RB>>,
     <<LB, "1", CM, SP, "2", CM, SP, "3", RB>>,
     <<LB, LB, "3", CM, SP, "4", RB, RB>>,
     <<LB, "1", CM, SP, LB, "a", RB, RB>>,
     <<LB, RB>>,
     <<LB, QT, "a", QT, CM, SP, QT, "a", QT, RB>>}

HelperInit ==
    /\ NewParser
    /\ arg \in QuoteTexts \cup ArrayLiterals
    /\ fn = "none"
    /\ out = <<>>
    /\ value = [type |-> "String", stringValue |-> <<>>, values |-> <<>>]
    /\ native = [type |-> "String", val |-> <<>>]

TrimQuotes ==
    /\ fn' = "trimQuotes"
    /\ out' = trimQuotes(arg)
    /\ UNCHANGED <<arg, value, native>>
    /\ UNCHANGED parserVars

IsArray ==
    /\ fn' = "isArray"
    /\ out' = isArray(arg)
    /\ UNCHANGED <<arg, value, native>>
    /\ UNCHANGED parserVars

\* parseArray is called on texts that satisfy isArray only
ParseArray ==
    /\ isArray(arg)
    /\ fn' = "parseArray"
    /\ out' = parseArray(arg)
    /\ UNCHANGED <<arg, value, native>>
    /\ UNCHANGED parserVars

HelperNext == TrimQuotes \/ IsArray \/ ParseArray

HelperSpec == HelperInit /\ [][HelperNext]_vars

---------------------------------------------------------------------------
(* One sConfValue, constructed and then set any number of times *)

ValueInts == (0 - MaxInt)..MaxInt

\* doubles, in ten-millionths:  0.0   1.5   0.1234567
ValueDoubles == {0, 15000000, 1234567}

\* strings:  (empty)   abc   42
ValueStrings == {<<>>, <<"a", "b", "c">>, <<"4", "2">>}

\* a tm of a summer day, daylight saving time in effect
SummerDate ==
    [year |-> 2024, mon |-> 7, mday |-> 14, hour |-> 0, min |-> 0, sec |-> 0,
     isdst |-> 1]

ValueDates == {SomeDate, SummerDate}

ValueArrays == {<<>>, <<IntegerValue(1), StringValue(<<"x">>)>>}

ValueInit ==
    /\ NewParser
    /\ arg = <<>>
    /\ fn = "none"
    /\ out = <<>>
    /\ \/ /\ value = [type |-> "String", stringValue |-> <<>>, values |-> <<>>]
          /\ native = [type |-> "String", val |-> <<>>]
       \/ \E x \in ValueStrings :
            value = StringValue(x) /\ native = [type |-> "String", val |-> x]
       \/ \E x \in ValueInts :
            value = IntegerValue(x) /\ native = [type |-> "Integer", val |-> x]
       \/ \E x \in ValueDoubles :
            value = DoubleValue(x) /\ native = [type |-> "Double", val |-> x]
       \/ \E x \in BOOLEAN :
            value = BooleanValue(x) /\ native = [type |-> "Boolean", val |-> x]
       \/ \E x \in ValueDates :
            value = DateValue(x) /\ native = [type |-> "Date", val |-> x]
       \/ \E x \in ValueArrays :
            value = ArrayValue(x) /\ native = [type |-> "Array", val |-> x]

SetInteger ==
    /\ \E x \in ValueInts :
         value' = setInteger(value, x) /\ native' = [type |-> "Integer", val |-> x]
    /\ UNCHANGED <<arg, fn, out>>
    /\ UNCHANGED parserVars

SetDouble ==
    /\ \E x \in ValueDoubles :
         value' = setDouble(value, x) /\ native' = [type |-> "Double", val |-> x]
    /\ UNCHANGED <<arg, fn, out>>
    /\ UNCHANGED parserVars

SetBoolean ==
    /\ \E x \in BOOLEAN :
         value' = setBoolean(value, x) /\ native' = [type |-> "Boolean", val |-> x]
    /\ UNCHANGED <<arg, fn, out>>
    /\ UNCHANGED parserVars

SetString ==
    /\ \E x \in ValueStrings :
         value' = setString(value, x) /\ native' = [type |-> "String", val |-> x]
    /\ UNCHANGED <<arg, fn, out>>
    /\ UNCHANGED parserVars

SetDate ==
    /\ \E x \in ValueDates :
         value' = setDate(value, x) /\ native' = [type |-> "Date", val |-> x]
    /\ UNCHANGED <<arg, fn, out>>
    /\ UNCHANGED parserVars

SetArray ==
    /\ \E x \in ValueArrays :
         value' = setArray(value, x) /\ native' = [type |-> "Array", val |-> x]
    /\ UNCHANGED <<arg, fn, out>>
    /\ UNCHANGED parserVars

ValueNext ==
    SetInteger \/ SetDouble \/ SetBoolean \/ SetString \/ SetDate \/ SetArray

ValueSpec == ValueInit /\ [][ValueNext]_vars

---------------------------------------------------------------------------
(* Properties *)

\* the error kinds of the design, by the message the code throws
Kind(err) ==
    CASE err = NoErr -> "none"
      [] err = ErrMalformed -> "MalformedLine"
      [] err = ErrSection -> "SectionNotFound"
      [] err \in {ErrKey, ErrKeyInSection} -> "KeyNotFound"
      [] err = ErrUnsupported -> "UnsupportedType"
      [] err \in {ErrNotInteger, ErrNotDouble, ErrNotBoolean, ErrNotString,
                  ErrNotDate, ErrNotArray} -> "TypeMismatch"
      [] err = ErrDateFormat -> "ConversionError"

\* a load has returned normally and nothing else has been called since
Parsed == pc = "idle" /\ last = Returned("load", NoErr)

\* the String texts held by a value, at any depth
RECURSIVE TextsOf(_)
TextsOf(v) ==
    IF v.type = "Array" THEN UNION {TextsOf(v.values[i]) : i \in 1..Len(v.values)}
    ELSE {v.stringValue}

\* no stored String text holds ',', ';', '[', ']' or '"'
PlainTexts(d) ==
    \A s \in DOMAIN d : \A k \in DOMAIN d[s] : \A t \in TextsOf(d[s][k]) :
        \A i \in 1..Len(t) : t[i] \notin {CM, SC, LB, RB, QT}

\* C1: for a Document produced by parse none of whose String texts holds
\* ',', ';', '[', ']' or '"', whatever order save visits the maps in,
\* parsing the saved lines into an empty parser gives the same sections,
\* the same keys and equal values.
C1_RoundTrip ==
    (Parsed /\ PlainTexts(data)) =>
        \A so \in Orders(DOMAIN data), ko \in KeyOrders(data) :
            LET written == save(data, comments, so, ko)
                again == load(written.lines)
            IN  written.err = NoErr /\ again.err = NoErr /\ again.data = data

\* C2: for every section to which parse attached a non-empty comment
\* sequence, parsing the saved lines into an empty parser gives that
\* section the same comment sequence.
C2_CommentsPreserved ==
    Parsed =>
        \A so \in Orders(DOMAIN data), ko \in KeyOrders(data) :
            LET again == load(save(data, comments, so, ko).lines)
            IN  \A s \in DOMAIN comments :
                    comments[s] # <<>> =>
                        /\ s \in DOMAIN again.comments
                        /\ again.comments[s] = comments[s]

RECURSIVE OnlyStringLeaves(_)
OnlyStringLeaves(v) ==
    \/ v.type = "String"
    \/ /\ v.type = "Array"
       /\ \A i \in 1..Len(v.values) : OnlyStringLeaves(v.values[i])

\* C3: while and after parsing into an empty document, every stored value is
\* a String or an Array, and every leaf of every Array, at any depth, is a
\* String: no Integer, Double, Boolean or Date comes out of parsing.
C3_NoTypeInference ==
    \A s \in DOMAIN data : \A k \in DOMAIN data[s] : OnlyStringLeaves(data[s][k])

\* the text 1 stored as a String beside an array holding an array
C3_Witness ==
    /\ Parsed
    /\ \E s \in DOMAIN data : \E k1, k2 \in DOMAIN data[s] :
         /\ data[s][k1].type = "String" /\ isIntegral(data[s][k1].stringValue)
         /\ data[s][k2].type = "Array"
         /\ \E i \in 1..Len(data[s][k2].values) : data[s][k2].values[i].type = "Array"

\* the step is a call of the API function op
Called(op) == nops' = nops + 1 /\ last'.op = op

\* normalising the name again changes nothing
StableName(name) == NormName(NormName(name)) = NormName(name)

\* C4: in every document state, each operation of the Document API called
\* with a name s gives the same result or error and the same resulting state
\* as called with trimQuotes(trim(s)) (stated for the names whose normal form
\* is itself in normal form, so that s and trimQuotes(trim(s)) address one
\* entry).
C4_NormalizationUniform ==
    \A s \in {x \in RawNames : StableName(x)} :
        LET n == NormName(s)
        IN  /\ addSection(data, comments, s) = addSection(data, comments, n)
            /\ hasSection(data, s) = hasSection(data, n)
            /\ getSection(data, s) = getSection(data, n)
            /\ getSectionKeyPair(data, s) = getSectionKeyPair(data, n)
            /\ removeSection(data, comments, s) = removeSection(data, comments, n)
            /\ getSectionComment(comments, s) = getSectionComment(comments, n)
            /\ hasSectionComment(comments, s) = hasSectionComment(comments, n)
            /\ removeSectionComment(data, comments, s)
                   = removeSectionComment(data, comments, n)
            /\ \A k \in {x \in RawKeys : StableName(x)} :
                 LET m == NormName(k)
                 IN  /\ hasSectionPairByKey(data, s, k) = hasSectionPairByKey(data, n, m)
                     /\ removeSectionPairByKey(data, comments, s, k)
                            = removeSectionPairByKey(data, comments, n, m)
                     /\ isSectionPairArray(data, s, k) = isSectionPairArray(data, n, m)
                     /\ isSectionPairSingleString(data, s, k)
                            = isSectionPairSingleString(data, n, m)
                     /\ \A v \in ApiValues :
                            setKey(data, comments, s, k, v) = setKey(data, comments, n, m, v)

\* C5: a call setKey(section, key, value) on a section absent from the
\* Document fails with SectionNotFound and leaves Document and Comments
\* unchanged; on a present section, and so right after addSection(section),
\* it succeeds, hasKey(section, key) is true afterwards and the section holds
\* that value under the key, the rest of the Document and the Comments being
\* as before.
C5_SetKeyNeedsSection ==
    [][Called("setKey") =>
        LET s == last'.section
            k == last'.key
            v == last'.value
            n == NormName(s)
        IN  /\ ~hasSection(data, s) =>
                 /\ Kind(last'.err) = "SectionNotFound"
                 /\ data' = data /\ comments' = comments
            /\ (hasSection(data, s) \/ (last.op = "addSection" /\ last.section = s)) =>
                 /\ last'.err = NoErr
                 /\ hasSectionPairByKey(data', s, k)
                 /\ getSection(data', s).ret[NormName(k)] = v
                 /\ data' = Put(data, n, Put(data[n], NormName(k), v))
                 /\ comments' = comments]_vars

\* setKey has just failed on a document that holds other sections
C5_Witness ==
    /\ pc = "idle"
    /\ last.op = "setKey" /\ last.err = ErrSection
    /\ ~hasSection(data, last.section)
    /\ DOMAIN data # {}

\* C6: removeSection(name) on a section present in the Document (hasSection
\* is true) succeeds, hasSection and hasComments are false afterwards and
\* getComments fails; removeSection(name) called again at once fails with
\* SectionNotFound and changes nothing.
C6_RemoveSection ==
    [][(Called("removeSection") /\ hasSection(data, last'.section)) =>
        LET s == last'.section
            again == removeSection(data', comments', s)
        IN  /\ last'.err = NoErr
            /\ ~hasSection(data', s)
            /\ ~hasSectionComment(comments', s)
            /\ Kind(getSectionComment(comments', s).err) = "SectionNotFound"
            /\ Kind(again.err) = "SectionNotFound"
            /\ again.data = data' /\ again.comments = comments']_vars

C8_RemoveKeyErrors ==
    [][Called("removeSectionPairByKey") =>
        LET s == last'.section
            k == last'.key
            n == NormName(s)
        IN  IF ~hasSection(data, s)
            THEN Kind(last'.err) = "SectionNotFound"
            ELSE IF ~hasSectionPairByKey(data, s, k)
            THEN Kind(last'.err) = "KeyNotFound"
            ELSE /\ last'.err = NoErr
                 /\ data' = Put(data, n, Erase(data[n], NormName(k)))
                 /\ comments' = comments]_vars

\* C9: when load fails with MalformedLine, Document and Comments are what
\* they were when that load began: nothing of the lines before the malformed
\* one is left.
C9_NoPartialParse ==
    (pc = "idle" /\ last.op = "load" /\ Kind(last.err) = "MalformedLine") =>
        (data = loadStart.data /\ comments = loadStart.comments)

\* C10: save never raises UnsupportedType on a Document whose values came
\* from parse or from setKey with values of the six variants.
C10_NoUnsupportedType ==
    last.op = "save" => Kind(last.err) # "UnsupportedType"

\* the positions of the commas of s that lie inside no bracket pair of s
TopCommas(s) ==
    {i \in 1..Len(s) :
        /\ s[i] = CM
        /\ Cardinality({j \in 1..(i - 1) : s[j] = LB})
               = Cardinality({j \in 1..(i - 1) : s[j] = RB})}

\* the top-level items of the inside of an array literal
RECURSIVE TopItems(_)
TopItems(s) ==
    IF s = <<>> THEN <<>>
    ELSE IF TopCommas(s) = {} THEN <<s>>
    ELSE LET p == Min(TopCommas(s))
         IN  <<SubSeq(s, 1, p - 1)>> \o TopItems(SubSeq(s, p + 1, Len(s)))

\* the text between the outer brackets of a literal
Inside(lit) == SubSeq(lit, 2, Len(lit) - 1)

\* some top-level item of the literal is a bracketed array of several items
HasNestedSeveral(lit) ==
    \E i \in 1..Len(TopItems(Inside(lit))) :
        LET item == NormName(TopItems(Inside(lit))[i])
        IN  isArray(item) /\ Len(TopItems(Inside(item))) >= 2

\* C11: for an array literal one of whose items is a bracketed inner array
\* of several items, parseArray returns one element per top-level item, the
\* inner literal being a single Array element that holds its own items; so
\* parseArray("[1, 2, [3, 4]]") has 3 elements, the third a 2-element array.
C11_NestedArrayKept ==
    (fn = "parseArray" /\ HasNestedSeveral(arg)) =>
        LET items == TopItems(Inside(arg))
        IN  /\ Len(out) = Len(items)
            /\ \A i \in 1..Len(items) :
                 isArray(NormName(items[i])) =>
                     /\ i <= Len(out)
                     /\ out[i].type = "Array"
                     /\ Len(out[i].values) = Len(TopItems(Inside(NormName(items[i]))))

\* C12: trimQuotes is idempotent: trimQuotes(trimQuotes(s)) = trimQuotes(s)
\* for every string s.
C12_TrimQuotesIdempotent ==
    fn = "trimQuotes" => trimQuotes(out) = out

\* the text has at least four characters, the first two and the last two
\* of them quotes
DoublyQuoted(str) ==
    /\ Len(str) >= 4
    /\ str[1] = QT /\ str[2] = QT
    /\ str[Len(str) - 1] = QT /\ str[Len(str)] = QT

\* C12, amended: trimQuotes strips one pair of enclosing quotes and no more:
\* trimQuotes(trimQuotes(s)) = trimQuotes(s) for every string s that does not
\* both begin with two quotes and end with two quotes within at least four
\* characters, and for such an s the second call strips a second pair.
C12_TrimQuotesOnePair ==
    fn = "trimQuotes" =>
        IF DoublyQuoted(arg)
        THEN /\ out = SubSeq(arg, 2, Len(arg) - 1)
             /\ trimQuotes(out) = SubSeq(arg, 3, Len(arg) - 2)
             /\ trimQuotes(out) # out
        ELSE trimQuotes(out) = out

\* trimQuotes has been called on ""a"" and has returned "a"
C12_Witness ==
    /\ fn = "trimQuotes"
    /\ arg = <<QT, QT, "a", QT, QT>>
    /\ out = <<QT, "a", QT>>

ValueTypes == {"String", "Integer", "Double", "Boolean", "Date", "Array"}

\* the accessor of the variant t, called on v
Get(t, v) ==
    CASE t = "String" -> getString(v)
      [] t = "Integer" -> getInteger(v)
      [] t = "Double" -> getDouble(v)
      [] t = "Boolean" -> getBoolean(v)
      [] t = "Date" -> getDate(v)
      [] t = "Array" -> getArray(v)

\* C13: after a constructor and any setters the tag is that of the most
\* recent of them; the accessor of that tag succeeds and returns the value
\* most recently given, and each of the five other accessors fails with
\* TypeMismatch.
C13_TagAuthoritative ==
    /\ getType(value) = native.type
    /\ Get(native.type, value) = [err |-> NoErr, ret |-> native.val]
    /\ \A t \in ValueTypes \ {native.type} :
         Kind(Get(t, value).err) = "TypeMismatch"

\* C14: after a parse into an empty document, every section name that has
\* an entry in Comments is a section of the Document, also when its header
\* is followed by no key=value line.
C14_CommentsWithinDocument ==
    (Parsed /\ loadStart.data = EmptyMap /\ loadStart.comments = EmptyMap) =>
        \A s \in DOMAIN comments : s \in getSections(data)

\* the value texts that hold no ';'
CommentFree == {v \in RawValues : \A i \in 1..Len(v) : v[i] # SC}

\* C15: for every key k and value text V holding no ';', the line
\* 'k = V ; c' stores the same Value as the line 'k = V': the outer quotes
\* of V are stripped once, with or without the inline comment.
C15_InlineCommentSameValue ==
    pc = "loading" =>
        \A k \in RawKeys, v \in CommentFree :
            LET bare == parseLine(KeyValueLine(k, v),
                                  data, comments, currentSection, commentBuffer)
                inline == parseLine(KeyValueLine(k, v \o <<SP, SC, SP, "c">>),
                                    data, comments, currentSection, commentBuffer)
            IN  /\ bare.err = NoErr /\ inline.err = NoErr
                /\ inline.data[currentSection][NormName(k)]
                       = bare.data[currentSection][NormName(k)]

LineClass(line) ==
    LET t == trim(line)
    IN  IF t = <<>> THEN "blank"
        ELSE IF t[1] = SC THEN "comment"
        ELSE IF t[1] = LB /\ t[Len(t)] = RB THEN "header"
        ELSE "pair"

CommentText(line) == trim(Tail(trim(line)))
HeaderName(line) == NormName(Inside(trim(line)))

\* the comment texts, in input order, of the blank and comment lines that
\* lie directly before line i
Attached(lines, i) ==
    LET stops == {m \in 1..(i - 1) : LineClass(lines[m]) \notin {"blank", "comment"}}
        from == IF stops = {} THEN 1 ELSE Max(stops) + 1
        run == SubSeq(lines, from, i - 1)
        texts == SelectSeq(run, LAMBDA l : LineClass(l) = "comment")
    IN  [j \in 1..Len(texts) |-> CommentText(texts[j])]

\* c0 followed by what the headers of the first n lines attach to name
RECURSIVE AttachedTo(_, _, _, _)
AttachedTo(lines, n, name, c0) ==
    IF n = 0 THEN c0
    ELSE AttachedTo(lines, n - 1, name, c0)
             \o (IF LineClass(lines[n]) = "header" /\ HeaderName(lines[n]) = name
                 THEN Attached(lines, n) ELSE <<>>)

\* the Comments map the protocol prescribes after the lines, from c0
ExpectedComments(lines, c0) ==
    LET names == DOMAIN c0 \cup
                 {HeaderName(lines[i]) :
                     i \in {m \in 1..Len(lines) : LineClass(lines[m]) = "header"}}
    IN  [name \in names |->
            AttachedTo(lines, Len(lines), name,
                       IF name \in DOMAIN c0 THEN c0[name] ELSE <<>>)]

\* C17: a comment line is attached, in input order, to the section of the
\* next header line exactly when only blank or comment lines lie between the
\* two; a key=value line clears the pending comments, so that comments before
\* a key=value line and comments pending at the end of the input are attached
\* to no section; a blank line does not clear them.
C17_CommentBufferProtocol ==
    comments = ExpectedComments(read, loadStart.comments)

\* a comment, a blank line and a header have been read, and the comment is
\* attached to the header's section
C17_Witness ==
    /\ Parsed
    /\ Len(read) = 3
    /\ LineClass(read[1]) = "comment" /\ CommentText(read[1]) # <<>>
    /\ LineClass(read[2]) = "blank"
    /\ LineClass(read[3]) = "header"
    /\ comments[HeaderName(read[3])] = <<CommentText(read[1])>>

\* C18: every section name n that getSections returns is addressable:
\* hasSection(n) is true and getSection(n) succeeds, and hasKey(n, k) is true
\* for every key k of that section; no stored name has blanks or quotes that
\* a lookup would strip.
C18_StoredNamesAddressable ==
    \A n \in getSections(data) :
        /\ hasSection(data, n)
        /\ getSection(data, n).err = NoErr
        /\ \A k \in DOMAIN data[n] : hasSectionPairByKey(data, n, k)

\* the section in force at line i: that of the last header before it
SectionAt(lines, i) ==
    LET hs == {m \in 1..(i - 1) : LineClass(lines[m]) = "header"}
    IN  IF hs = {} THEN <<>> ELSE HeaderName(lines[Max(hs)])

\* the key a key=value line names
PairKey(line) ==
    LET t == trim(line)
    IN  NormName(SubSeq(t, 1, Min({i \in 1..Len(t) : t[i] = EQ}) - 1))

\* the value a key=value line stores, taken on its own
PairValue(line) ==
    parseLine(line, EmptyMap, EmptyMap, <<>>, <<>>).data[<<>>][PairKey(line)]

\* the lines that assign key k of section s
Assigning(lines, s, k) ==
    {i \in 1..Len(lines) :
        /\ LineClass(lines[i]) = "pair"
        /\ SectionAt(lines, i) = s
        /\ PairKey(lines[i]) = k}

\* the Document that merging the lines into d0 gives
ExpectedData(lines, d0) ==
    LET pairs == {i \in 1..Len(lines) : LineClass(lines[i]) = "pair"}
        secs == DOMAIN d0 \cup {SectionAt(lines, i) : i \in pairs}
        keysOf(s) ==
            (IF s \in DOMAIN d0 THEN DOMAIN d0[s] ELSE {})
            \cup {PairKey(lines[i]) : i \in {m \in pairs : SectionAt(lines, m) = s}}
    IN  [s \in secs |->
            [k \in keysOf(s) |->
                IF Assigning(lines, s, k) = {} THEN d0[s][k]
                ELSE PairValue(lines[Max(Assigning(lines, s, k))])]]

\* C19: a load that returns adds to the state it found: the keys of every
\* occurrence of a section, in this input or in earlier loads, are merged
\* into one section, the last assignment to a key winning; the section's
\* comments are those it had followed, in encounter order, by the comments
\* flushed at each of its headers; what the input does not mention is
\* unchanged.
C19_ParseAccumulates ==
    [][(Called("load") /\ last'.err = NoErr) =>
        /\ data' = ExpectedData(read', data)
        /\ comments' = ExpectedComments(read', comments)]_vars

\* a file that names section a under two headers has been loaded over a
\* Document that held a commented section a with the key k
C19_Witness ==
    /\ pc = "idle"
    /\ last = Returned("load", NoErr)
    /\ Len(read) = 5
    /\ <<"a">> \in DOMAIN loadStart.data
    /\ loadStart.data[<<"a">>] # data[<<"a">>]
    /\ <<"k">> \in DOMAIN loadStart.data[<<"a">>]
    /\ DOMAIN data[<<"a">>] = {<<"k">>, <<SP, "k">>}
    /\ comments[<<"a">>] = <<<<"c">>, <<"d">>>>

\* the maps m1 and m2 agree outside the entry x
SameBut(m1, m2, x) ==
    /\ DOMAIN m1 \ {x} = DOMAIN m2 \ {x}
    /\ \A y \in DOMAIN m1 \ {x} : m1[y] = m2[y]

\* the entry a call resolves its section argument to: the stored name it
\* looks up (removeSection strips the quotes and does not trim)
Addressed(op, section) ==
    IF op = "removeSection" THEN trimQuotes(section) ELSE NormName(section)

===========================================================================
